---------------------------- MODULE Spec2Model ----------------------------
(***************************************************************************)
(* Model of the sarajevosmogsquad- repository:                             *)
(*   src/generate_story_img.py  AQI Fetcher and Image Renderer             *)
(*   src/post_story.py          Story Publisher                            *)
(*                                                                         *)
(* Four specifications share the module, one per part of the program:     *)
(*   SpecTier    the two severity-tier lookups, applied to every AQI       *)
(*   SpecFetch   fetch_sarajevo_aqi over bounded pages                      *)
(*   SpecRender  main/generate_story_image of the Renderer, with a clock    *)
(*               and the stories/ directory                                 *)
(*   SpecPub     main/post_story_to_instagram of the Publisher             *)
(* Text is a sequence of one-character strings.                            *)
(***************************************************************************)
EXTENDS Integers, Sequences, FiniteSets, TLC

VARIABLES
    \* --- tier lookups
    aqi_in,         \* the AQI handed to the two lookups
    tier_out,       \* NoTier, or [asset, color, label] as the lookups returned
    \* --- fetch_sarajevo_aqi
    fpc,            \* position: "get", "status", "parse", "returned", "raised"
    fresponse,      \* the HTTP response: [status, page]
    fresult,        \* the value returned (NoValue until then)
    ferror,         \* the exception raised (NoValue until then)
    \* --- Renderer
    rpc,            \* position in main/generate_story_image
    clock,          \* the wall clock, in hours
    ticks,          \* how many times the clock advanced (bounded)
    renders,        \* invocations of main started so far (bounded)
    assets,         \* the tiers whose static/imgs/<tier>.png exists
    helvetica,      \* TRUE iff /System/Library/Fonts/Helvetica.ttc loads
    default_font,   \* TRUE iff ImageFont.load_default() succeeds
    stories_dir,    \* TRUE iff the directory stories/ exists
    files,          \* stories/: file name -> image content
    aqi,            \* local aqi of main (-1 until fetched)
    date_hour,      \* local date_hour of generate_story_image (line 69)
    formatted_date, \* local formatted_date (line 84)
    font,           \* the font loaded: "helvetica", "default"
    rerror,         \* the exception caught by main
    rexit,          \* exit code of main (-1 while running)
    files0,         \* history: files when the invocation started
    clock0,         \* history: clock when the invocation started
    render_log,     \* history: [name, content] of each successful render, in order
    \* --- Publisher
    ppc,            \* position in main/post_story_to_instagram
    argc,           \* len(sys.argv)
    file_state,     \* stories/<filename>: "missing", "dir", "file"
    env_repo,       \* GITHUB_REPOSITORY
    env_token,      \* INSTAGRAM_ACCESS_TOKEN (an optional text)
    env_user,       \* INSTAGRAM_USER_ID (an optional text)
    image_url,      \* local image_url of main
    access_token,   \* local access_token of main (NoText until bound)
    user_id,        \* local user_id of main
    container_id,   \* local container_id
    media_id,       \* local media_id
    posts,          \* history: the POSTs sent, with the response each got
    printed,        \* the error texts printed so far
    perror,         \* the message of the exception main caught
    success,        \* TRUE iff the "Success!" line was printed
    pexit           \* exit code of main (-1 while running)

tvars == <<aqi_in, tier_out>>
fvars == <<fpc, fresponse, fresult, ferror>>
rvars == <<rpc, clock, ticks, renders, assets, helvetica, default_font, stories_dir,
           files, aqi, date_hour, formatted_date, font, rerror, rexit, files0,
           clock0, render_log>>
pvars == <<ppc, argc, file_state, env_repo, env_token, env_user, image_url,
           access_token, user_id, container_id, media_id, posts, printed, perror,
           success, pexit>>
vars == <<tvars, fvars, rvars, pvars>>

NoValue == "NoValue"
None == "None"

\* an optional text: a variable of the environment that may be unset, a
\* tag that may have no string, an exception that may not have been raised
NoText == [set |-> FALSE, text |-> <<>>]
Some(t) == [set |-> TRUE, text |-> t]

\* a tier record, a date and an exit code not assigned yet
NoTier == [asset |-> NoValue, color |-> NoValue, label |-> NoValue]
NoDate == [date |-> -1, hour |-> -1]

(***************************************************************************)
(* Bounds of the model.                                                    *)
(***************************************************************************)
MaxAqi == 260        \* the lookups are applied to 0..MaxAqi
MaxTextLen == 2      \* longest text of the primary AQI element
MaxNodeLen == 1      \* longest text of a node preceding the marker
MaxPrev == 2         \* most nodes preceding the marker's parent
MaxTicks == 2        \* most advances of the clock
MaxRenders == 2      \* most invocations of the Renderer
MaxTokLen == 1       \* longest INSTAGRAM_ACCESS_TOKEN
MaxBodyLen == 2      \* longest response body text

(***************************************************************************)
(* Text helpers: Python str methods, computed as CPython computes them.    *)
(***************************************************************************)
Texts(chars, n) == UNION {[1..k -> chars] : k \in 0..n}

Whitespace == {" "}
Digits == {"0", "7"}

DigitValue(c) == IF c = "7" THEN 7 ELSE 0

\* s[i..], s[..j]
Drop(s, k) == SubSeq(s, k + 1, Len(s))
Take(s, k) == SubSeq(s, 1, k)

\* str.strip(): drop leading and trailing whitespace
RECURSIVE LStrip(_)
LStrip(s) == IF s # <<>> /\ Head(s) \in Whitespace THEN LStrip(Tail(s)) ELSE s

RECURSIVE RStrip(_)
RStrip(s) ==
    IF s # <<>> /\ s[Len(s)] \in Whitespace THEN RStrip(Take(s, Len(s) - 1)) ELSE s

Strip(s) == RStrip(LStrip(s))

\* str.isdigit(): non-empty and every character a digit
IsDigit(s) == s # <<>> /\ \A i \in 1..Len(s) : s[i] \in Digits

\* the value of a digit string, base 10
RECURSIVE DigitsValue(_)
DigitsValue(s) ==
    IF s = <<>> THEN 0
    ELSE 10 * DigitsValue(Take(s, Len(s) - 1)) + DigitValue(s[Len(s)])

\* int(s): surrounding whitespace is skipped, one leading "-" is a sign, the
\* rest must be digits; anything else is a ValueError.
IntParses(s) ==
    LET t == Strip(s)
    IN  \/ IsDigit(t)
        \/ t # <<>> /\ Head(t) = "-" /\ IsDigit(Tail(t))

IntValue(s) ==
    LET t == Strip(s)
    IN  IF Head(t) = "-" THEN 0 - DigitsValue(Tail(t)) ELSE DigitsValue(t)

\* tok occurs in s at position i
OccursAt(s, tok, i) == i + Len(tok) - 1 <= Len(s) /\ SubSeq(s, i, i + Len(tok) - 1) = tok

\* tok in s (read by the properties)
Contains(s, tok) == \E i \in 1..(Len(s) + 1) : OccursAt(s, tok, i)

\* str.replace(old, new): occurrences are taken left to right and do not
\* overlap; an empty old matches before every character and at the end.
RECURSIVE ReplaceFrom(_, _, _)
ReplaceFrom(s, old, new) ==
    IF s = <<>> THEN <<>>
    ELSE IF OccursAt(s, old, 1) THEN new \o ReplaceFrom(Drop(s, Len(old)), old, new)
    ELSE <<Head(s)>> \o ReplaceFrom(Tail(s), old, new)

RECURSIVE Interleave(_, _)
Interleave(s, new) ==
    IF s = <<>> THEN new ELSE new \o <<Head(s)>> \o Interleave(Tail(s), new)

Replace(s, old, new) ==
    IF old = <<>> THEN Interleave(s, new) ELSE ReplaceFrom(s, old, new)

(***************************************************************************)
(* generate_story_img.py: the severity tiers.                              *)
(***************************************************************************)
get_base_image_name_and_color_from_aqi(a) ==
    IF a < 50 THEN <<"good", "#2d3f5b">>
    ELSE IF a < 100 THEN <<"ok", "#2d3f5b">>
    ELSE IF a < 200 THEN <<"bad", "#28201d">>
    ELSE <<"dangerous", "#30130b">>

\* the label lookup with its first boundary drifted from the asset lookup's
get_label_from_aqi_drift(a) ==
    IF a <= 50 THEN "Breathe easy"
    ELSE IF a < 100 THEN "Mostly fine"
    ELSE IF a < 200 THEN "Unhealthy air"
    ELSE "Stay inside!"

get_label_from_aqi(a) ==
    IF a < 50 THEN "Breathe easy"
    ELSE IF a < 100 THEN "Mostly fine"
    ELSE IF a < 200 THEN "Unhealthy air"
    ELSE "Stay inside!"

TierNames == {"good", "ok", "bad", "dangerous"}

TierInit == aqi_in \in 0..MaxAqi /\ tier_out = NoTier

\* lines 72-73 of generate_story_image: both lookups on the same aqi
Classify ==
    /\ tier_out = NoTier
    /\ tier_out' = [asset |-> get_base_image_name_and_color_from_aqi(aqi_in)[1],
                    color |-> get_base_image_name_and_color_from_aqi(aqi_in)[2],
                    label |-> get_label_from_aqi(aqi_in)]
    /\ UNCHANGED aqi_in
    /\ UNCHANGED <<fvars, rvars, pvars>>

TierIdle == aqi_in = 0 /\ tier_out = NoTier


(***************************************************************************)
(* generate_story_img.py: fetch_sarajevo_aqi.                              *)
(* A page is what the parser reads of it: the text of the first            *)
(* <p class="aqi-value__value"> (NoText when there is none), whether some  *)
(* string contains "US AQI", and the .string of each tag that precedes     *)
(* that string's parent, nearest first (NoText for a tag without a single  *)
(* string).                                                                *)
(***************************************************************************)
PageChars == {"-", "0", "7", "x", " "}

OptTexts(chars, n) == {NoText} \cup {Some(t) : t \in Texts(chars, n)}

NodeStrings == OptTexts(PageChars, MaxNodeLen)

Pages ==
    [primary : OptTexts(PageChars, MaxTextLen),
     marker : BOOLEAN,
     prev : UNION {[1..k -> NodeStrings] : k \in 0..MaxPrev}]

GetStatuses == {200, 304, 404, 500}

\* Response.raise_for_status(): raises for 4xx and 5xx only
RaisesForStatus(status) == 400 <= status /\ status < 600

\* line 52: sibling.string and sibling.string.strip().isdigit()
NumericNode(str) == str.set /\ str.text # <<>> /\ IsDigit(Strip(str.text))

\* lines 51-56: the first numeric node of find_all_previous(), 0 when none
FirstNumeric(prev) ==
    IF \E i \in 1..Len(prev) : NumericNode(prev[i])
    THEN CHOOSE i \in 1..Len(prev) :
             /\ NumericNode(prev[i])
             /\ \A j \in 1..(i - 1) : ~NumericNode(prev[j])
    ELSE 0

FetchInit ==
    /\ fpc = "get"
    /\ fresponse = NoValue
    /\ fresult = NoValue
    /\ ferror = NoValue

\* line 38: requests.get
FetchGet ==
    /\ fpc = "get"
    /\ \/ \E st \in GetStatuses, pg \in Pages :
            /\ fresponse' = [status |-> st, page |-> pg]
            /\ fpc' = "status"
            /\ UNCHANGED ferror
       \/ /\ ferror' = "ConnectionError"
          /\ fpc' = "raised"
          /\ UNCHANGED fresponse
    /\ UNCHANGED fresult
    /\ UNCHANGED <<tvars, rvars, pvars>>

\* line 39: response.raise_for_status()
FetchRaiseForStatus ==
    /\ fpc = "status"
    /\ IF RaisesForStatus(fresponse.status)
       THEN fpc' = "raised" /\ ferror' = "HTTPError"
       ELSE fpc' = "parse" /\ UNCHANGED ferror
    /\ UNCHANGED <<fresponse, fresult>>
    /\ UNCHANGED <<tvars, rvars, pvars>>

\* line 60: int(aqi_element.text.strip())
ParsePrimary(text) ==
    IF IntParses(Strip(text))
    THEN [ok |-> TRUE, value |-> IntValue(Strip(text))]
    ELSE [ok |-> FALSE, error |-> "ValueError: invalid literal for int()"]

\* lines 47-58: the marker text and the numeric node before it
ParseFallback(pg) ==
    IF ~pg.marker
    THEN [ok |-> FALSE, error |-> "ValueError: Could not find AQI element on page"]
    ELSE IF FirstNumeric(pg.prev) = 0
    THEN [ok |-> FALSE, error |-> "ValueError: Could not parse AQI value from page"]
    ELSE [ok |-> TRUE, value |-> IntValue(Strip(pg.prev[FirstNumeric(pg.prev)].text))]

\* lines 41-62
ParsePage(pg) ==
    IF ~pg.primary.set THEN ParseFallback(pg) ELSE ParsePrimary(pg.primary.text)

FetchParse ==
    /\ fpc = "parse"
    /\ LET r == ParsePage(fresponse.page)
       IN  IF r.ok
           THEN fpc' = "returned" /\ fresult' = r.value /\ UNCHANGED ferror
           ELSE fpc' = "raised" /\ ferror' = r.error /\ UNCHANGED fresult
    /\ UNCHANGED fresponse
    /\ UNCHANGED <<tvars, rvars, pvars>>

FetchIdle ==
    /\ fpc = "idle"
    /\ fresponse = NoValue
    /\ fresult = NoValue
    /\ ferror = NoValue

(***************************************************************************)
(* generate_story_img.py: main and generate_story_image.                   *)
(* The clock counts hours; a date is the day the hour falls in.            *)
(***************************************************************************)
HoursPerDay == 24

StartClocks == {13, 23}

AqiInputs == {35, 50, 120, 250}

\* datetime.strftime("%Y-%m-%d_%H"): the date and the hour of the day
FormatDateHour(t) == [date |-> t \div HoursPerDay, hour |-> t % HoursPerDay]

\* datetime.strftime("%B %d at %H:00"): month and day, and the hour of the day
FormatCaption(t) == [date |-> t \div HoursPerDay, hour |-> t % HoursPerDay]

\* an open that substitutes a blank image for a missing file
ImageOpensAlways(base_image, present) == TRUE

\* Image.open(background_path) finds the file
ImageOpens(base_image, present) == base_image \in present

\* a loader without the fallback of the except block
LoadFontsStrict(helv, dflt) ==
    IF helv THEN [ok |-> TRUE, font |-> "helvetica"]
    ELSE [ok |-> FALSE, error |-> "OSError: cannot open resource"]

\* lines 87-92: Helvetica, else the default font; an error of load_default()
\* is raised from the except block
LoadFonts(helv, dflt) ==
    IF helv THEN [ok |-> TRUE, font |-> "helvetica"]
    ELSE IF dflt THEN [ok |-> TRUE, font |-> "default"]
    ELSE [ok |-> FALSE, error |-> "OSError: cannot open resource"]

\* a save that refuses to replace an existing file
SaveImageExclusive(fs, name, content) ==
    IF name \in DOMAIN fs THEN fs
    ELSE [n \in DOMAIN fs \cup {name} |-> IF n = name THEN content ELSE fs[n]]

\* img.save(output_path): creates the file or replaces its content
SaveImage(fs, name, content) ==
    [n \in DOMAIN fs \cup {name} |-> IF n = name THEN content ELSE fs[n]]

\* lines 72-73 and 95-119: what is drawn on the image
Compose(a, caption, fnt) ==
    [asset |-> get_base_image_name_and_color_from_aqi(a)[1],
     color |-> get_base_image_name_and_color_from_aqi(a)[2],
     line0 |-> caption,
     line1 |-> a,
     line2 |-> get_label_from_aqi(a),
     font |-> fnt]

AssetSets == {TierNames} \cup {TierNames \ {t} : t \in TierNames}

RenderLocalsInit ==
    /\ aqi = -1
    /\ date_hour = NoDate
    /\ formatted_date = NoDate
    /\ font = NoValue
    /\ rerror = NoValue
    /\ rexit = -1

RenderInit ==
    /\ rpc = "start"
    /\ clock \in StartClocks
    /\ ticks = 0
    /\ renders = 1
    /\ assets \in AssetSets
    /\ helvetica \in BOOLEAN
    /\ default_font \in BOOLEAN
    /\ stories_dir = FALSE
    /\ files = <<>>
    /\ RenderLocalsInit
    /\ files0 = <<>>
    /\ clock0 = clock
    /\ render_log = <<>>

renv == <<assets, helvetica, default_font, renders, files0, clock0>>

\* the wall clock advances by an hour, at any point of an invocation
Tick ==
    /\ rpc # "idle"
    /\ ticks < MaxTicks
    /\ clock' = clock + 1
    /\ ticks' = ticks + 1
    /\ UNCHANGED <<rpc, renv, stories_dir, files, aqi, date_hour, formatted_date,
                   font, rerror, rexit, render_log>>
    /\ UNCHANGED <<tvars, fvars, pvars>>

\* main, lines 130-132: fetch_sarajevo_aqi() returns a reading or raises
RenderFetch ==
    /\ rpc = "start"
    /\ \/ \E a \in AqiInputs : aqi' = a /\ rpc' = "makedirs" /\ UNCHANGED rerror
       \/ aqi' = aqi /\ rpc' = "except" /\ rerror' = "fetch failed"
    /\ UNCHANGED <<clock, ticks, renv, stories_dir, files, date_hour,
                   formatted_date, font, rexit, render_log>>
    /\ UNCHANGED <<tvars, fvars, pvars>>

\* line 66: os.makedirs("stories", exist_ok=True)
RenderMakedirs ==
    /\ rpc = "makedirs"
    /\ stories_dir' = TRUE
    /\ rpc' = "now1"
    /\ UNCHANGED <<clock, ticks, renv, files, aqi, date_hour, formatted_date,
                   font, rerror, rexit, render_log>>
    /\ UNCHANGED <<tvars, fvars, pvars>>

\* lines 68-70: the first clock read, and the output path
RenderOutputPath ==
    /\ rpc = "now1"
    /\ date_hour' = FormatDateHour(clock)
    /\ rpc' = "open"
    /\ UNCHANGED <<clock, ticks, renv, stories_dir, files, aqi, formatted_date,
                   font, rerror, rexit, render_log>>
    /\ UNCHANGED <<tvars, fvars, pvars>>

\* lines 72-80: the tier lookups and Image.open of the tier's background
RenderOpen ==
    /\ rpc = "open"
    /\ IF ImageOpens(get_base_image_name_and_color_from_aqi(aqi)[1], assets)
       THEN rpc' = "now2" /\ UNCHANGED rerror
       ELSE rpc' = "except" /\ rerror' = "FileNotFoundError"
    /\ UNCHANGED <<clock, ticks, renv, stories_dir, files, aqi, date_hour,
                   formatted_date, font, rexit, render_log>>
    /\ UNCHANGED <<tvars, fvars, pvars>>

\* lines 83-84: the second clock read, and the caption
RenderCaption ==
    /\ rpc = "now2"
    /\ formatted_date' = FormatCaption(clock)
    /\ rpc' = "fonts"
    /\ UNCHANGED <<clock, ticks, renv, stories_dir, files, aqi, date_hour, font,
                   rerror, rexit, render_log>>
    /\ UNCHANGED <<tvars, fvars, pvars>>

\* lines 87-92
RenderFonts ==
    /\ rpc = "fonts"
    /\ LET r == LoadFonts(helvetica, default_font)
       IN  IF r.ok
           THEN font' = r.font /\ rpc' = "save" /\ UNCHANGED rerror
           ELSE font' = font /\ rpc' = "except" /\ rerror' = r.error
    /\ UNCHANGED <<clock, ticks, renv, stories_dir, files, aqi, date_hour,
                   formatted_date, rexit, render_log>>
    /\ UNCHANGED <<tvars, fvars, pvars>>

\* lines 95-125 and main, lines 135-141: draw, save, return the path, exit 0
RenderSave ==
    /\ rpc = "save"
    /\ LET content == Compose(aqi, formatted_date, font)
       IN  /\ files' = SaveImage(files, date_hour, content)
           /\ render_log' = Append(render_log, [name |-> date_hour, content |-> content])
    /\ rexit' = 0
    /\ rpc' = "done"
    /\ UNCHANGED <<clock, ticks, renv, stories_dir, aqi, date_hour, formatted_date,
                   font, rerror>>
    /\ UNCHANGED <<tvars, fvars, pvars>>

\* main, lines 137-139: print the error, exit 1
RenderExcept ==
    /\ rpc = "except"
    /\ rexit' = 1
    /\ rpc' = "done"
    /\ UNCHANGED <<clock, ticks, renv, stories_dir, files, aqi, date_hour,
                   formatted_date, font, rerror, render_log>>
    /\ UNCHANGED <<tvars, fvars, pvars>>

\* the next run of the script
RenderAgain ==
    /\ rpc = "done"
    /\ renders < MaxRenders
    /\ renders' = renders + 1
    /\ rpc' = "start"
    /\ aqi' = -1
    /\ date_hour' = NoDate
    /\ formatted_date' = NoDate
    /\ font' = NoValue
    /\ rerror' = NoValue
    /\ rexit' = -1
    /\ files0' = files
    /\ clock0' = clock
    /\ UNCHANGED <<clock, ticks, assets, helvetica, default_font, stories_dir,
                   files, render_log>>
    /\ UNCHANGED <<tvars, fvars, pvars>>

RenderIdle ==
    /\ rpc = "idle"
    /\ clock = 0
    /\ ticks = 0
    /\ renders = 0
    /\ assets = {}
    /\ helvetica = FALSE
    /\ default_font = FALSE
    /\ stories_dir = FALSE
    /\ files = <<>>
    /\ RenderLocalsInit
    /\ files0 = <<>>
    /\ clock0 = 0
    /\ render_log = <<>>

(***************************************************************************)
(* post_story.py.  Fixed text of the program (a URL prefix, the words of   *)
(* a message) is one element of a text; text that comes from the           *)
(* environment or from the server is spelt character by character.         *)
(***************************************************************************)
Alphabet == {"D", "k", " "}

REDACTED == <<"*", "*", "*", "R", "E", "D", "A", "C", "T", "E", "D", "*", "*", "*">>

EnvTokens == OptTexts(Alphabet, MaxTokLen)
EnvUsers == {NoText, Some(<<>>), Some(<<"9">>)}
EnvRepos == {NoText, Some(<<>>), Some(<<"o", "/", "r">>)}
Bodies == Texts(Alphabet, MaxBodyLen)
ContainerIds == {"c1", "c2"}
MediaIds == {"m1"}
PostStatuses == {200, 201, 400, 500}

\* line 46-47
sanitize_error_message(message, token) == Replace(message, token, REDACTED)

\* a check for None alone
CredentialAcceptedUnchecked(value) == value.set

\* lines 13-16: a credential that is unset or empty is refused
CredentialAccepted(value) == value.set /\ value.text # <<>>

\* lines 24-28: what validate_story_file raises, NoText when it returns
ValidateError(state) ==
    IF state = "missing" THEN Some(<<"File not found: ", "stories/<filename>">>)
    ELSE IF state # "file" THEN Some(<<"Not a file: ", "stories/<filename>">>)
    ELSE NoText

\* line 35: os.getenv("GITHUB_REPOSITORY", default)
RepoOf(env) == IF ~env.set THEN <<"melisbackkk/sarajevosmogsquad-">> ELSE env.text

\* line 42
GithubUrl(repo) ==
    <<"https://raw.githubusercontent.com/">> \o repo \o <<"/", "main", "/stories/", "<filename>">>

\* lines 52 and 75
GraphUrl(uid, endpoint) == <<"https://graph.facebook.com/v21.0/">> \o uid \o <<"/", endpoint>>

\* str() of the HTTPError of raise_for_status()
HttpErrorMessage(status, url) ==
    <<ToString(status), IF status < 500 THEN " Client Error: " ELSE " Server Error: ",
      "<reason>", " for url: ">> \o url

\* the responses a POST can get; status 0 stands for no response at all
\* (requests.post raised).  A field the program never reads for a status is
\* left at one value: the text of a 200, the JSON of a 4xx or 5xx.
Responses(ids) ==
    {[status |-> 0, text |-> <<>>, json |-> "invalid"]}
    \cup [status : {200}, text : {<<>>}, json : {"invalid", "noid"} \cup ids]
    \cup [status : {st \in PostStatuses : st # 200 /\ ~RaisesForStatus(st)},
          text : Bodies, json : {"invalid", "noid"} \cup ids]
    \cup [status : {st \in PostStatuses : RaisesForStatus(st)},
          text : Bodies, json : {"invalid"}]

\* lines 62-64 and 84-86: the line printed for a response, if any
ErrorLines(resp, token) ==
    IF resp.status # 0 /\ resp.status # 200
    THEN << <<"Error: ", ToString(resp.status), " - ">> \o sanitize_error_message(resp.text, token) >>
    ELSE <<>>

\* lines 60-67 and 82-89: the exception a response ends the call with,
\* NoText when the call goes on
PostError(resp, url) ==
    IF resp.status = 0 THEN Some(<<"ConnectionError: ", "<cause>">>)
    ELSE IF RaisesForStatus(resp.status) THEN Some(HttpErrorMessage(resp.status, url))
    ELSE IF resp.json = "invalid" THEN Some(<<"Expecting value: line 1 column 1 (char 0)">>)
    ELSE NoText

\* lines 67 and 89: response.json().get("id")
JsonId(resp) == IF resp.json = "noid" THEN None ELSE resp.json

PubInit ==
    /\ ppc = "args"
    /\ argc \in {1, 2}
    /\ file_state \in {"missing", "dir", "file"}
    /\ env_repo \in EnvRepos
    /\ env_token \in EnvTokens
    /\ env_user \in EnvUsers
    /\ image_url = <<>>
    /\ access_token = NoText
    /\ user_id = NoText
    /\ container_id = NoValue
    /\ media_id = NoValue
    /\ posts = <<>>
    /\ printed = <<>>
    /\ perror = NoText
    /\ success = FALSE
    /\ pexit = -1

penv == <<argc, file_state, env_repo, env_token, env_user>>

\* main, lines 96-103
PubArgs ==
    /\ ppc = "args"
    /\ IF argc # 2
       THEN ppc' = "done" /\ pexit' = 1
       ELSE ppc' = "validate" /\ UNCHANGED pexit
    /\ UNCHANGED <<penv, image_url, access_token, user_id, container_id, media_id,
                   posts, printed, perror, success>>
    /\ UNCHANGED <<tvars, fvars, rvars>>

\* main, lines 106-108: validate_story_file
PubValidate ==
    /\ ppc = "validate"
    /\ IF ValidateError(file_state).set
       THEN ppc' = "except" /\ perror' = ValidateError(file_state)
       ELSE ppc' = "url" /\ UNCHANGED perror
    /\ UNCHANGED <<penv, image_url, access_token, user_id, container_id, media_id,
                   posts, printed, success, pexit>>
    /\ UNCHANGED <<tvars, fvars, rvars>>

\* main, lines 110-112: get_github_image_url
PubImageUrl ==
    /\ ppc = "url"
    /\ IF RepoOf(env_repo) = <<>>
       THEN /\ ppc' = "except"
            /\ perror' = Some(<<"GITHUB_REPOSITORY environment variable not set">>)
            /\ UNCHANGED image_url
       ELSE /\ ppc' = "credentials"
            /\ image_url' = GithubUrl(RepoOf(env_repo))
            /\ UNCHANGED perror
    /\ UNCHANGED <<penv, access_token, user_id, container_id, media_id, posts,
                   printed, success, pexit>>
    /\ UNCHANGED <<tvars, fvars, rvars>>

\* main, lines 114-115: get_credentials
PubCredentials ==
    /\ ppc = "credentials"
    /\ IF ~CredentialAccepted(env_token)
       THEN /\ ppc' = "except"
            /\ perror' = Some(<<"INSTAGRAM_ACCESS_TOKEN environment variable not set">>)
            /\ UNCHANGED <<access_token, user_id>>
       ELSE IF ~CredentialAccepted(env_user)
       THEN /\ ppc' = "except"
            /\ perror' = Some(<<"INSTAGRAM_USER_ID environment variable not set">>)
            /\ UNCHANGED <<access_token, user_id>>
       ELSE /\ ppc' = "container"
            /\ access_token' = Some(Strip(env_token.text))
            /\ user_id' = Some(Strip(env_user.text))
            /\ UNCHANGED perror
    /\ UNCHANGED <<penv, image_url, container_id, media_id, posts, printed,
                   success, pexit>>
    /\ UNCHANGED <<tvars, fvars, rvars>>

\* post_story_to_instagram, lines 52-68: the container-creation POST
PubCreateContainer ==
    /\ ppc = "container"
    /\ \E resp \in Responses(ContainerIds) :
         /\ posts' = Append(posts, [endpoint |-> "media", creation_id |-> NoValue,
                                    status |-> resp.status, json |-> resp.json])
         /\ printed' = printed \o ErrorLines(resp, access_token.text)
         /\ IF PostError(resp, GraphUrl(user_id.text, "media")).set
            THEN /\ ppc' = "except"
                 /\ perror' = PostError(resp, GraphUrl(user_id.text, "media"))
                 /\ UNCHANGED container_id
            ELSE /\ ppc' = "wait"
                 /\ container_id' = JsonId(resp)
                 /\ UNCHANGED perror
    /\ UNCHANGED <<penv, image_url, access_token, user_id, media_id, success, pexit>>
    /\ UNCHANGED <<tvars, fvars, rvars>>

\* lines 71-72: time.sleep(3)
PubWait ==
    /\ ppc = "wait"
    /\ ppc' = "publish"
    /\ UNCHANGED <<penv, image_url, access_token, user_id, container_id, media_id,
                   posts, printed, perror, success, pexit>>
    /\ UNCHANGED <<tvars, fvars, rvars>>

\* lines 75-92: the publish POST
PubPublish ==
    /\ ppc = "publish"
    /\ \E resp \in Responses(MediaIds) :
         /\ posts' = Append(posts, [endpoint |-> "media_publish", creation_id |-> container_id,
                                    status |-> resp.status, json |-> resp.json])
         /\ printed' = printed \o ErrorLines(resp, access_token.text)
         /\ IF PostError(resp, GraphUrl(user_id.text, "media_publish")).set
            THEN /\ ppc' = "except"
                 /\ perror' = PostError(resp, GraphUrl(user_id.text, "media_publish"))
                 /\ UNCHANGED media_id
            ELSE /\ ppc' = "success"
                 /\ media_id' = JsonId(resp)
                 /\ UNCHANGED perror
    /\ UNCHANGED <<penv, image_url, access_token, user_id, container_id, success, pexit>>
    /\ UNCHANGED <<tvars, fvars, rvars>>

\* main, lines 120 and 134
PubSuccess ==
    /\ ppc = "success"
    /\ success' = TRUE
    /\ pexit' = 0
    /\ ppc' = "done"
    /\ UNCHANGED <<penv, image_url, access_token, user_id, container_id, media_id,
                   posts, printed, perror>>
    /\ UNCHANGED <<tvars, fvars, rvars>>

\* main, lines 122-132: the handler redacts when access_token is bound
PubExcept ==
    /\ ppc = "except"
    /\ printed' = Append(printed,
                         <<"Error: ">> \o (IF access_token.set
                                           THEN sanitize_error_message(perror.text,
                                                                       access_token.text)
                                           ELSE perror.text))
    /\ pexit' = 1
    /\ ppc' = "done"
    /\ UNCHANGED <<penv, image_url, access_token, user_id, container_id, media_id,
                   posts, perror, success>>
    /\ UNCHANGED <<tvars, fvars, rvars>>

PubIdle ==
    /\ ppc = "idle"
    /\ argc = 0
    /\ file_state = "missing"
    /\ env_repo = NoText
    /\ env_token = NoText
    /\ env_user = NoText
    /\ image_url = <<>>
    /\ access_token = NoText
    /\ user_id = NoText
    /\ container_id = NoValue
    /\ media_id = NoValue
    /\ posts = <<>>
    /\ printed = <<>>
    /\ perror = NoText
    /\ success = FALSE
    /\ pexit = -1

(***************************************************************************)
(* The specifications.                                                     *)
(***************************************************************************)
InitTier == TierInit /\ FetchIdle /\ RenderIdle /\ PubIdle
NextTier == Classify
SpecTier == InitTier /\ [][NextTier]_vars

InitFetch == TierIdle /\ FetchInit /\ RenderIdle /\ PubIdle
NextFetch == FetchGet \/ FetchRaiseForStatus \/ FetchParse
SpecFetch == InitFetch /\ [][NextFetch]_vars

InitRender == TierIdle /\ FetchIdle /\ RenderInit /\ PubIdle
NextRender ==
    \/ Tick
    \/ RenderFetch
    \/ RenderMakedirs
    \/ RenderOutputPath
    \/ RenderOpen
    \/ RenderCaption
    \/ RenderFonts
    \/ RenderSave
    \/ RenderExcept
    \/ RenderAgain
SpecRender == InitRender /\ [][NextRender]_vars

InitPub == TierIdle /\ FetchIdle /\ RenderIdle /\ PubInit
NextPub ==
    \/ PubArgs
    \/ PubValidate
    \/ PubImageUrl
    \/ PubCredentials
    \/ PubCreateContainer
    \/ PubWait
    \/ PubPublish
    \/ PubSuccess
    \/ PubExcept
SpecPub == InitPub /\ [][NextPub]_vars

(***************************************************************************)
(* The properties.                                                         *)
(***************************************************************************)
\* the tier table of the specification: asset and label by AQI range
TierTable ==
    << [lo |-> 0, hi |-> 49, asset |-> "good", label |-> "Breathe easy"],
       [lo |-> 50, hi |-> 99, asset |-> "ok", label |-> "Mostly fine"],
       [lo |-> 100, hi |-> 199, asset |-> "bad", label |-> "Unhealthy air"] >>

TopTier == [asset |-> "dangerous", label |-> "Stay inside!"]

RowsOf(a) == {i \in 1..Len(TierTable) : TierTable[i].lo <= a /\ a <= TierTable[i].hi}

\* C1: for every AQI a >= 0 the asset lookup and the label lookup put a in
\* the same tier, the one the table gives: good/Breathe easy below 50,
\* ok/Mostly fine from 50, bad/Unhealthy air from 100, dangerous/Stay inside!
\* from 200; every a is in exactly one tier.
C1_TiersAgree ==
    tier_out # NoTier =>
        /\ Cardinality(RowsOf(aqi_in)) = (IF aqi_in >= 200 THEN 0 ELSE 1)
        /\ \A i \in RowsOf(aqi_in) :
               tier_out.asset = TierTable[i].asset /\ tier_out.label = TierTable[i].label
        /\ aqi_in >= 200 => tier_out.asset = TopTier.asset /\ tier_out.label = TopTier.label

C1_Witness ==
    /\ aqi_in = 50
    /\ tier_out # NoTier
    /\ tier_out.asset = "ok"
    /\ tier_out.label = "Mostly fine"

\* C2: no error text the Publisher prints contains the access token it
\* loaded, whatever token get_credentials accepted and whatever the
\* responses said.
C2_NoTokenInErrorText ==
    (access_token.set /\ access_token.text # <<>>) =>
        \A i \in 1..Len(printed) : ~Contains(printed[i], access_token.text)

\* C3: a POST answered with a status other than 200 ends the call: it is the
\* last POST, the invocation goes to the handler and exits 1, and no success
\* is reported.
C3_Non200Raises ==
    \A i \in 1..Len(posts) :
        (posts[i].status # 0 /\ posts[i].status # 200) =>
            /\ i = Len(posts)
            /\ ppc \in {"except", "done"}
            /\ ~success
            /\ ppc = "done" => pexit = 1

\* C4: with the file missing or not a regular file, or a credential unset or
\* empty, the Publisher exits 1 and sends no request; a request is only sent
\* after the file was validated and both credentials were loaded.
FileBad == file_state # "file"
TokenMissing == ~env_token.set \/ env_token.text = <<>>
UserMissing == ~env_user.set \/ env_user.text = <<>>

C4_NoRequestBeforeValidation ==
    /\ (FileBad \/ TokenMissing \/ UserMissing) =>
           /\ posts = <<>>
           /\ ~success
           /\ ppc = "done" => pexit = 1
    /\ posts # <<>> =>
           /\ argc = 2
           /\ ~FileBad
           /\ access_token.set
           /\ user_id.set

C4_Witness ==
    /\ ppc = "done"
    /\ argc = 2
    /\ file_state = "missing"
    /\ ~TokenMissing
    /\ ~UserMissing
    /\ pexit = 1
    /\ posts = <<>>

\* C5: exit code 0 is only returned after exactly one container-creation
\* POST whose response carried a container identifier and one publish POST
\* whose creation_id is that identifier and whose response carried a media
\* identifier.
C5_SuccessOnlyWithIdentifiers ==
    pexit = 0 =>
        /\ success
        /\ Len(posts) = 2
        /\ posts[1].endpoint = "media"
        /\ posts[1].json \in ContainerIds
        /\ posts[2].endpoint = "media_publish"
        /\ posts[2].creation_id = posts[1].json
        /\ posts[2].json \in MediaIds

\* C6: a value fetch_sarajevo_aqi returns is a non-negative integer, and it
\* returns only for a successful status and a page one of whose two
\* strategies yields such a number.
IsNumber(t) == IsDigit(t) \/ (t # <<>> /\ Head(t) = "-" /\ IsDigit(Tail(t)))
PrimaryYields(pg) == pg.primary.set /\ IsNumber(Strip(pg.primary.text))
FallbackYields(pg) ==
    /\ ~pg.primary.set
    /\ pg.marker
    /\ \E i \in 1..Len(pg.prev) : pg.prev[i].set /\ IsDigit(Strip(pg.prev[i].text))

C6_ReturnsNonNegativeOrRaises ==
    fpc = "returned" =>
        /\ fresult >= 0
        /\ fresponse.status < 400
        /\ PrimaryYields(fresponse.page) \/ FallbackYields(fresponse.page)

\* the asset the tier table names for an AQI
AssetFor(a) ==
    IF RowsOf(a) = {} THEN TopTier.asset ELSE TierTable[CHOOSE i \in RowsOf(a) : TRUE].asset

\* C7: when the background asset of the AQI's tier is missing, the render
\* fails with a file error, stories/ holds the same files with the same
\* content as before the call, and main exits 1.
C7_MissingAssetWritesNothing ==
    (aqi # -1 /\ AssetFor(aqi) \notin assets) =>
        /\ files = files0
        /\ rpc = "done" => rexit = 1 /\ rerror = "FileNotFoundError"

C7_Witness ==
    /\ rpc = "done"
    /\ aqi # -1
    /\ AssetFor(aqi) \notin assets
    /\ rexit = 1
    /\ date_hour \in DOMAIN files

\* the last render logged under a name
LastRender(name) ==
    render_log[CHOOSE i \in 1..Len(render_log) :
                   /\ render_log[i].name = name
                   /\ \A j \in (i + 1)..Len(render_log) : render_log[j].name # name]

\* C8: a successful render writes exactly stories/<date>_<hour>.png for an
\* hour the clock showed during the call, whether or not the file existed,
\* and touches no other file; stories/ holds one file per hour rendered,
\* with the content of the latest render of that hour.
C8_OneFilePerHour ==
    /\ (rpc = "done" /\ rexit = 0) =>
           /\ \E t \in clock0..clock :
                  date_hour = [date |-> t \div HoursPerDay, hour |-> t % HoursPerDay]
           /\ DOMAIN files = DOMAIN files0 \cup {date_hour}
           /\ \A n \in DOMAIN files0 \ {date_hour} : files[n] = files0[n]
           /\ files[date_hour].line1 = aqi
           /\ files[date_hour].asset = AssetFor(aqi)
    /\ DOMAIN files = {render_log[i].name : i \in 1..Len(render_log)}
    /\ \A n \in DOMAIN files : files[n] = LastRender(n).content

C8_Witness ==
    /\ rpc = "done"
    /\ rexit = 0
    /\ date_hour \in DOMAIN files0
    /\ files[date_hour] # files0[date_hour]
    /\ Cardinality(DOMAIN files) = 1
    /\ Len(render_log) = 2

\* C9, as claimed: when the font cannot be loaded the render fails, main
\* exits 1 and no image is written with a substitute font.
C9_FontErrorPropagates ==
    ~helvetica =>
        /\ render_log = <<>>
        /\ rpc = "done" => rexit = 1

\* C9, amended: an error loading Helvetica is caught and the default font
\* is loaded in its place; the image is written with the default font and
\* main exits 0; a font error reaches main only when the default font fails
\* to load too.
C9_FontFallback ==
    /\ (~helvetica /\ default_font /\ rpc = "save") => font = "default"
    /\ (~helvetica /\ rpc = "done" /\ rexit = 0) =>
           /\ default_font
           /\ files[date_hour].font = "default"
    /\ (rpc = "done" /\ rexit = 1 /\ (helvetica \/ default_font)) =>
           rerror \in {"fetch failed", "FileNotFoundError"}
    /\ (rpc = "done" /\ rexit = 1 /\ ~helvetica /\ ~default_font
            /\ formatted_date # NoDate) =>
           rerror = "OSError: cannot open resource"

C9_Witness ==
    /\ rpc = "done"
    /\ rexit = 0
    /\ ~helvetica
    /\ default_font
    /\ files[date_hour].font = "default"

\* C10: in a successful render the date and hour of the caption are the date
\* and hour of the file name.
C10_CaptionMatchesFileName ==
    (rpc = "done" /\ rexit = 0) =>
        /\ formatted_date.date = date_hour.date
        /\ formatted_date.hour = date_hour.hour
==========================================================================
